---------------------------- MODULE Spec2Model ----------------------------
(***************************************************************************)
(* Model of the two validators of data_normalize-validate:                 *)
(*   src/validate.py   strict pass/fail validator (validate_document,      *)
(*                     validate_invoice, validate_expense)                 *)
(*   src/normalize.py  confidence-scoring validator (validate_invoice_data,*)
(*                     validate_invoice_file)                              *)
(* The validators are pure functions of one parsed JSON record.  A state   *)
(* holds the record handed to an entry point, the entry point's position   *)
(* (pc), the functions called and what came back: a report or an exception.*)
(* Spec calls one entry point on one record; BatchSpec runs validate.py as *)
(* a script: load_json reads a file of documents (loaded) and              *)
(* print_validation_result validates them in turn (position, printed).     *)
(*                                                                         *)
(* Encoding of Python values.  A value is [k, s, n, items]: k is the type  *)
(* ("absent" for a key that is not in the mapping, "null" for None, "bool",*)
(* "int", "float", "str", "list", "dict"), s the text of a str, n the      *)
(* number in cents (hundredths; a bool is 0 or 1 whole units = 0/100 cents *)
(* and carries n = 0 or 100), items the elements of a list.  A list element*)
(* is [k, f] with f its keys when it is a dict.  The arithmetic of the     *)
(* validators is done on the binary64 values of the amounts (FloatOf),     *)
(* rounded to nearest-even as Python rounds.                               *)
(***************************************************************************)
EXTENDS Integers, Sequences, FiniteSets, TLC

VARIABLES record, pc, calls, result, exc, loaded, position, printed

vars == <<record, pc, calls, result, exc, loaded, position, printed>>

(***************************************************************************)
(* Bounds of the model.                                                    *)
(***************************************************************************)
\* amounts of the arithmetic inputs range over 0..MaxAmount cents
MaxAmount == 3
\* list-valued fields hold at most MaxItems elements
MaxItems == 2
\* a file of documents holds at most MaxDocuments documents
MaxDocuments == 2

(***************************************************************************)
(* Values.                                                                 *)
(***************************************************************************)
Absent == [k |-> "absent", s |-> "", n |-> 0, items |-> <<>>]
PyNone == [k |-> "null", s |-> "", n |-> 0, items |-> <<>>]
PyStr(x) == [k |-> "str", s |-> x, n |-> 0, items |-> <<>>]
PyInt(c) == [k |-> "int", s |-> "", n |-> c, items |-> <<>>]
PyFloat(c) == [k |-> "float", s |-> "", n |-> c, items |-> <<>>]
PyBool(b) == [k |-> "bool", s |-> "", n |-> IF b THEN 100 ELSE 0, items |-> <<>>]
PyList(xs) == [k |-> "list", s |-> "", n |-> 0, items |-> xs]
PyDict == [k |-> "dict", s |-> "", n |-> 0, items |-> <<>>]

\* keys a list element (a line item, an expense item) may carry
ItemKeys == {"date", "total", "amount", "quantity", "unit_price"}
NoKeys == [key \in ItemKeys |-> Absent]
\* a list element that is a mapping with the given keys
Item(f) == [k |-> "dict", f |-> f @@ NoKeys]
\* a list element that is not a mapping
Scalar(kind) == [k |-> kind, f |-> NoKeys]

\* isinstance(v, (int, float)); bool is a subclass of int
IsNumber(v) == v.k \in {"int", "float", "bool"}
\* `key in mapping`
Has(d, field) == d[field].k # "absent"
\* `key in mapping and mapping[key] is not None`
HasValue(d, field) == d[field].k \notin {"absent", "null"}

(***************************************************************************)
(* Strings.  Text is computed on character sequences; Chars gives the      *)
(* characters of every string the inputs are drawn from.                   *)
(***************************************************************************)
Chars(s) ==
  CASE s = "" -> <<>>
    [] s = " " -> <<" ">>
    [] s = "N/A" -> <<"N", "/", "A">>
    [] s = "n/a" -> <<"n", "/", "a">>
    [] s = "null" -> <<"n", "u", "l", "l">>
    [] s = "Unknown" -> <<"U", "n", "k", "n", "o", "w", "n">>
    [] s = "TBD" -> <<"T", "B", "D">>
    [] s = "None" -> <<"N", "o", "n", "e">>
    [] s = "000" -> <<"0", "0", "0">>
    [] s = "abc" -> <<"a", "b", "c">>
    [] s = "INV-1" -> <<"I", "N", "V", "-", "1">>
    [] s = "Acme" -> <<"A", "c", "m", "e">>
    [] s = "invoice" -> <<"i", "n", "v", "o", "i", "c", "e">>
    [] s = "INVOICE" -> <<"I", "N", "V", "O", "I", "C", "E">>
    [] s = "Invoice" -> <<"I", "n", "v", "o", "i", "c", "e">>
    [] s = "expense_report" ->
         <<"e", "x", "p", "e", "n", "s", "e", "_", "r", "e", "p", "o", "r", "t">>
    [] s = "Expense_Report" ->
         <<"E", "x", "p", "e", "n", "s", "e", "_", "R", "e", "p", "o", "r", "t">>
    [] s = "receipt" -> <<"r", "e", "c", "e", "i", "p", "t">>
    [] s = "2023-05-15" -> <<"2", "0", "2", "3", "-", "0", "5", "-", "1", "5">>
    [] s = "2023-06-15" -> <<"2", "0", "2", "3", "-", "0", "6", "-", "1", "5">>
    [] s = "2023-04-15" -> <<"2", "0", "2", "3", "-", "0", "4", "-", "1", "5">>
    [] s = "2024-01-02" -> <<"2", "0", "2", "4", "-", "0", "1", "-", "0", "2">>
    [] s = "2023-05-20" -> <<"2", "0", "2", "3", "-", "0", "5", "-", "2", "0">>
    [] s = "2023-5-1" -> <<"2", "0", "2", "3", "-", "5", "-", "1">>
    [] s = "2023-13-45" -> <<"2", "0", "2", "3", "-", "1", "3", "-", "4", "5">>
    [] s = "2023-02-30" -> <<"2", "0", "2", "3", "-", "0", "2", "-", "3", "0">>
    [] s = "05/15/2023" -> <<"0", "5", "/", "1", "5", "/", "2", "0", "2", "3">>
    [] s = "1.02" -> <<"1", ".", "0", "2">>
    [] s = "3" -> <<"3">>
    [] s = "{}" -> <<"{", "}">>
    [] s = "INV-2023-001" -> <<"I", "N", "V", "-", "2", "0", "2", "3", "-", "0", "0", "1">>
    [] s = "INV-2023-002" -> <<"I", "N", "V", "-", "2", "0", "2", "3", "-", "0", "0", "2">>
    [] s = "Acme Corp" -> <<"A", "c", "m", "e", " ", "C", "o", "r", "p">>
    [] s = "Globex Inc." -> <<"G", "l", "o", "b", "e", "x", " ", "I", "n", "c", ".">>
    [] s = "Net 30" -> <<"N", "e", "t", " ", "3", "0">>
    [] s = "USD" -> <<"U", "S", "D">>
    [] s = "1250.50" -> <<"1", "2", "5", "0", ".", "5", "0">>

Digits == {"0", "1", "2", "3", "4", "5", "6", "7", "8", "9"}

DigitValue(c) ==
  CASE c = "0" -> 0 [] c = "1" -> 1 [] c = "2" -> 2 [] c = "3" -> 3
    [] c = "4" -> 4 [] c = "5" -> 5 [] c = "6" -> 6 [] c = "7" -> 7
    [] c = "8" -> 8 [] c = "9" -> 9

\* the value of a run of decimal digits
RECURSIVE Number(_)
Number(cs) ==
  IF cs = <<>> THEN 0
  ELSE 10 * Number(SubSeq(cs, 1, Len(cs) - 1)) + DigitValue(cs[Len(cs)])

AllDigits(cs) == Len(cs) > 0 /\ \A i \in 1..Len(cs) : cs[i] \in Digits

\* str.lower() of one character
LowerChar(c) ==
  CASE c = "A" -> "a" [] c = "B" -> "b" [] c = "C" -> "c" [] c = "D" -> "d"
    [] c = "E" -> "e" [] c = "F" -> "f" [] c = "G" -> "g" [] c = "H" -> "h"
    [] c = "I" -> "i" [] c = "J" -> "j" [] c = "K" -> "k" [] c = "L" -> "l"
    [] c = "M" -> "m" [] c = "N" -> "n" [] c = "O" -> "o" [] c = "P" -> "p"
    [] c = "Q" -> "q" [] c = "R" -> "r" [] c = "S" -> "s" [] c = "T" -> "t"
    [] c = "U" -> "u" [] c = "V" -> "v" [] c = "W" -> "w" [] c = "X" -> "x"
    [] c = "Y" -> "y" [] c = "Z" -> "z"
    [] OTHER -> c

\* the text as it is written, its case kept
SameCase(cs) == cs

\* str.lower()
Lower(cs) == [i \in 1..Len(cs) |-> LowerChar(cs[i])]

\* str.strip() == ""
StripIsEmpty(cs) == \A i \in 1..Len(cs) : cs[i] = " "

\* the positions of character c in cs
Positions(cs, c) == {i \in 1..Len(cs) : cs[i] = c}

(***************************************************************************)
(* Dates.  A parsed date is [ok, ord]: ord orders the dates it is given    *)
(* for (year, month, day compared in that order).                          *)
(***************************************************************************)
NoDate == [ok |-> FALSE, ord |-> 0]

IsLeap(y) == (y % 4 = 0 /\ y % 100 # 0) \/ y % 400 = 0

DaysInMonth(y, m) ==
  IF m = 2 THEN (IF IsLeap(y) THEN 29 ELSE 28)
  ELSE IF m \in {4, 6, 9, 11} THEN 30 ELSE 31

\* datetime(y, m, d): ValueError outside the calendar (MINYEAR is 1)
MakeDate(y, m, d) ==
  IF y >= 1 /\ m \in 1..12 /\ d >= 1 /\ d <= DaysInMonth(y, m)
  THEN [ok |-> TRUE, ord |-> (y * 100 + m) * 100 + d]
  ELSE NoDate

\* the three "-"-separated parts of cs as digit runs whose lengths are in
\* the given sets, made into a date
ParseYMD(cs, ylen, mlen, dlen) ==
  LET dash == Positions(cs, "-") IN
  IF Cardinality(dash) # 2 THEN NoDate
  ELSE LET p1 == CHOOSE i \in dash : \A j \in dash : i <= j
           p2 == CHOOSE i \in dash : \A j \in dash : j <= i
           y == SubSeq(cs, 1, p1 - 1)
           m == SubSeq(cs, p1 + 1, p2 - 1)
           d == SubSeq(cs, p2 + 1, Len(cs))
       IN IF /\ AllDigits(y) /\ AllDigits(m) /\ AllDigits(d)
             /\ Len(y) \in ylen /\ Len(m) \in mlen /\ Len(d) \in dlen
          THEN MakeDate(Number(y), Number(m), Number(d))
          ELSE NoDate

\* datetime.strptime(s, "%Y-%m-%d"): %Y is four digits, %m and %d one or two
Strptime(cs) == ParseYMD(cs, {4}, {1, 2}, {1, 2})

\* datetime.fromisoformat(s) on a date without a time part: YYYY-MM-DD
FromIsoFormat(cs) == ParseYMD(cs, {4}, {2}, {2})

\* re.match(r"^\d{4}-\d{2}-\d{2}$", s)
MatchesIsoPattern(cs) ==
  /\ Len(cs) = 10
  /\ \A i \in 1..10 : IF i \in {5, 8} THEN cs[i] = "-" ELSE cs[i] \in Digits

(***************************************************************************)
(* Floating point.  Python's float is an IEEE 754 binary64: a sign, an     *)
(* integer mantissa of Precision bits and a binary exponent, every         *)
(* operation giving the exact result rounded to the nearest such number,   *)
(* ties to even.  A mantissa is a natural number written in base Base,     *)
(* least significant digit first, without leading zero digits; the         *)
(* numbers met here are far from overflow and underflow.                   *)
(***************************************************************************)
Min(a, b) == IF a <= b THEN a ELSE b
Max(a, b) == IF a >= b THEN a ELSE b
Abs(x) == IF x < 0 THEN -x ELSE x

\* the bits of the mantissa of a binary64
Precision == 53

\* the bits of one digit of a natural number, and the base 2^DigitBits
DigitBits == 15
Base == 2 ^ DigitBits

RECURSIVE Nat2(_)
Nat2(n) == IF n = 0 THEN <<>> ELSE <<n % Base>> \o Nat2(n \div Base)

Digit(a, i) == IF i >= 1 /\ i <= Len(a) THEN a[i] ELSE 0

RECURSIVE Trim(_)
Trim(a) ==
  IF a = <<>> \/ a[Len(a)] # 0 THEN a ELSE Trim(SubSeq(a, 1, Len(a) - 1))

RECURSIVE AddFrom(_, _, _, _)
AddFrom(a, b, i, carry) ==
  IF i > Len(a) /\ i > Len(b) THEN (IF carry = 1 THEN <<1>> ELSE <<>>)
  ELSE LET s == Digit(a, i) + Digit(b, i) + carry
       IN <<s % Base>> \o AddFrom(a, b, i + 1, s \div Base)

NatAdd(a, b) == AddFrom(a, b, 1, 0)

\* a - b for a >= b
RECURSIVE SubFrom(_, _, _, _)
SubFrom(a, b, i, borrow) ==
  IF i > Len(a) THEN <<>>
  ELSE LET s == Digit(a, i) - Digit(b, i) - borrow
       IN <<(s + Base) % Base>> \o SubFrom(a, b, i + 1, IF s < 0 THEN 1 ELSE 0)

NatSub(a, b) == Trim(SubFrom(a, b, 1, 0))

RECURSIVE LessFrom(_, _, _)
LessFrom(a, b, i) ==
  IF i = 0 THEN FALSE
  ELSE IF a[i] # b[i] THEN a[i] < b[i]
  ELSE LessFrom(a, b, i - 1)

NatLess(a, b) ==
  IF Len(a) # Len(b) THEN Len(a) < Len(b) ELSE LessFrom(a, b, Len(a))

\* a * 2^k
ShiftLeft(a, k) ==
  LET p == 2 ^ (k % DigitBits)
      digits == [i \in 1..(Len(a) + 1) |->
                   ((Digit(a, i) * p) % Base) + ((Digit(a, i - 1) * p) \div Base)]
  IN IF a = <<>> THEN a
     ELSE [i \in 1..(k \div DigitBits) |-> 0] \o Trim(digits)

\* a \div 2^k
ShiftRight(a, k) ==
  LET p == 2 ^ (k % DigitBits)
      rest == SubSeq(a, k \div DigitBits + 1, Len(a))
  IN Trim([i \in 1..Len(rest) |->
             (rest[i] \div p) + ((Digit(rest, i + 1) % p) * (Base \div p))])

\* a * b: the products of b by the digits of a, each in its place
RECURSIVE MulFrom(_, _, _)
MulFrom(a, b, i) ==
  IF i > Len(a) THEN <<>>
  ELSE LET \* b * a[i]: digit j of it, the carry of the digits below added
           carry[j \in 0..Len(b)] ==
             IF j = 0 THEN 0 ELSE (b[j] * a[i] + carry[j - 1]) \div Base
           product == [j \in 1..(Len(b) + 1) |->
                         (Digit(b, j) * a[i] + carry[j - 1]) % Base]
       IN NatAdd([j \in 1..(i - 1) |-> 0] \o product, MulFrom(a, b, i + 1))

NatMul(a, b) == Trim(MulFrom(a, b, 1))

RECURSIVE BitLength(_)
BitLength(n) == IF n = 0 THEN 0 ELSE 1 + BitLength(n \div 2)

\* the number of bits of a
NatBits(a) ==
  IF a = <<>> THEN 0 ELSE (DigitBits * (Len(a) - 1)) + BitLength(a[Len(a)])

\* 0.0
Zero == [neg |-> FALSE, m |-> <<>>, e |-> 0]

\* m * 2^e, plus a positive fraction of 2^e when sticky, rounded to the
\* nearest float, ties to even
RoundNearestEven(neg, m, e, sticky) ==
  IF m = <<>> THEN Zero
  ELSE IF NatBits(m) <= Precision THEN [neg |-> neg, m |-> m, e |-> e]
  ELSE LET drop == NatBits(m) - Precision
           kept == ShiftRight(m, drop)
           lost == NatSub(m, ShiftLeft(kept, drop))
           half == ShiftLeft(<<1>>, drop - 1)
           up == \/ NatLess(half, lost)
                 \/ lost = half /\ (sticky \/ kept[1] % 2 = 1)
       IN [neg |-> neg,
           m |-> IF up THEN NatAdd(kept, <<1>>) ELSE kept,
           e |-> e + drop]

\* the digits of the division this many places after the point
FractionDigits == 6

\* the first k digits of r/d after the point, most significant last
RECURSIVE Fraction(_, _, _)
Fraction(r, d, k) ==
  IF k = 0 THEN <<>>
  ELSE Fraction((Base * r) % d, d, k - 1) \o <<(Base * r) \div d>>

RECURSIVE Remainder(_, _, _)
Remainder(r, d, k) == IF k = 0 THEN r ELSE Remainder((Base * r) % d, d, k - 1)

\* the float nearest to n/d, for n >= 0 and 0 < d < Base
FromRatio(n, d) ==
  RoundNearestEven(FALSE,
                   Trim(Fraction(n % d, d, FractionDigits) \o Nat2(n \div d)),
                   -(DigitBits * FractionDigits),
                   Remainder(n % d, d, FractionDigits) # 0)

FNeg(x) == [x EXCEPT !.neg = ~x.neg /\ x.m # <<>>]
FAbs(x) == [x EXCEPT !.neg = FALSE]

\* the sum of a * 2^e, negative when xneg, and b * 2^e, negative when yneg
AddAligned(xneg, a, yneg, b, e) ==
  RoundNearestEven(IF xneg = yneg \/ ~NatLess(a, b) THEN xneg ELSE yneg,
                   IF xneg = yneg THEN NatAdd(a, b)
                   ELSE IF NatLess(a, b) THEN NatSub(b, a)
                   ELSE NatSub(a, b),
                   e, FALSE)

\* the exponent two floats are aligned to
Aligned(x, y) ==
  IF x.m = <<>> THEN y.e ELSE IF y.m = <<>> THEN x.e ELSE Min(x.e, y.e)

\* the mantissa of x at the exponent e
MantissaAt(x, e) == ShiftLeft(x.m, x.e - e)

FAddAt(x, y, e) ==
  AddAligned(x.neg, MantissaAt(x, e), y.neg, MantissaAt(y, e), e)

FAdd(x, y) == FAddAt(x, y, Aligned(x, y))

FSub(x, y) == FAdd(x, FNeg(y))

FMul(x, y) ==
  RoundNearestEven(x.neg # y.neg, NatMul(x.m, y.m), x.e + y.e, FALSE)

\* |x| < |y|, both at the exponent e
LessAt(x, y, e) == NatLess(MantissaAt(x, e), MantissaAt(y, e))

\* x < y; the float 0 is never negative
FLess(x, y) ==
  IF x.neg # y.neg THEN x.neg
  ELSE IF x.neg THEN LessAt(y, x, Aligned(x, y))
  ELSE LessAt(x, y, Aligned(x, y))

\* the float of an amount given in cents (the nearest to cents/100)
Signed(negative, x) == IF negative THEN FNeg(x) ELSE x

FloatOf(cents) == Signed(cents < 0, FromRatio(Abs(cents), 100))

(***************************************************************************)
(* src/validate.py: the rule tables.                                       *)
(***************************************************************************)
INVOICE_REQUIRED_FIELDS ==
  << <<"document_type", "str">>, <<"invoice_number", "str">>,
     <<"invoice_date", "str">>, <<"vendor_information", "dict">>,
     <<"buyer_information", "dict">>, <<"item_details", "list">>,
     <<"total_amount", "float">> >>

INVOICE_OPTIONAL_FIELDS ==
  << <<"due_date", "str">>, <<"purchase_order_number", "str">>,
     <<"payment_terms", "str">>, <<"subtotal_amount", "float">>,
     <<"total_discount", "float">>, <<"vat_amount", "float">>,
     <<"amount_in_words", "str">>, <<"currency", "str">>,
     <<"remarks", "str">> >>

EXPENSE_REQUIRED_FIELDS ==
  << <<"document_type", "str">>, <<"employee_name", "str">>,
     <<"expense_items", "list">>, <<"total_amount", "float">> >>

EXPENSE_OPTIONAL_FIELDS ==
  << <<"report_id", "str">>, <<"employee_id", "str">>,
     <<"department", "str">>, <<"report_date", "str">>,
     <<"period_start", "str">>, <<"period_end", "str">>,
     <<"subtotal_amount", "float">>, <<"vat_amount", "float">>,
     <<"approval_name", "str">>, <<"approval_status", "str">>,
     <<"currency", "str">>, <<"remarks", "str">> >>

PLACEHOLDER_VALUES == {PyStr(""), PyStr("N/A"), PyStr("null"), PyNone}

\* the field names of a rule table
Names(table) == {table[i][1] : i \in 1..Len(table)}

(***************************************************************************)
(* src/validate.py: the utility functions.                                 *)
(***************************************************************************)
\* mapping.get(field): None when the key is absent
Get(d, field) == IF Has(d, field) THEN d[field] ELSE PyNone

\* isinstance(value, rules["type"]); bool is no str, float, list or dict,
\* and an int is not a float
IsInstance(v, type) == v.k = type

\* float(val): [ok, n]; ok is FALSE where Python raises ValueError (text that
\* is no number) or TypeError (None, a list, a mapping).  Text is read as
\* digits with at most two decimals: signs, exponents and surrounding blanks
\* are not among the inputs.
ToFloat(v) ==
  IF IsNumber(v) THEN [ok |-> TRUE, n |-> v.n]
  ELSE IF v.k # "str" THEN [ok |-> FALSE, n |-> 0]
  ELSE LET cs == Chars(v.s)
           dot == Positions(cs, ".")
       IN IF dot = {} THEN
            (IF AllDigits(cs) THEN [ok |-> TRUE, n |-> 100 * Number(cs)]
             ELSE [ok |-> FALSE, n |-> 0])
          ELSE IF Cardinality(dot) = 1 THEN
            LET p == CHOOSE i \in dot : TRUE
                whole == SubSeq(cs, 1, p - 1)
                frac == SubSeq(cs, p + 1, Len(cs))
            IN IF AllDigits(whole) /\ AllDigits(frac) /\ Len(frac) \in {1, 2}
               THEN [ok |-> TRUE,
                     n |-> 100 * Number(whole)
                           + (IF Len(frac) = 1 THEN 10 ELSE 1) * Number(frac)]
               ELSE [ok |-> FALSE, n |-> 0]
          ELSE [ok |-> FALSE, n |-> 0]

\* date_format(date_str): strptime's ValueError and TypeError are caught
date_format(v) == v.k = "str" /\ Strptime(Chars(v.s)).ok

\* is_empty(value)
is_empty(v) ==
  v \in PLACEHOLDER_VALUES \/ (v.k = "str" /\ StripIsEmpty(Chars(v.s)))

\* find_empty_fields(data, required_fields): the mapping it returns
find_empty_fields(d, required_fields) ==
  [field \in {g \in Names(required_fields) : is_empty(Get(d, g))}
     |-> "Required field cannot be empty"]

\* bool(value); a nested mapping is taken to be non-empty
Truthy(v) ==
  CASE v.k \in {"absent", "null"} -> FALSE
    [] v.k = "str" -> v.s # ""
    [] v.k = "list" -> v.items # <<>>
    [] v.k = "dict" -> TRUE
    [] OTHER -> v.n # 0

(***************************************************************************)
(* src/validate.py: validate_invoice.                                      *)
(***************************************************************************)
TypeName(type) == "<class '" \o type \o "'>"

\* the entry the required-field loop writes for one field ("" for none)
InvoiceRequiredMessage(d, rule) ==
  LET field == rule[1]
      value == Get(d, field)
  IN IF ~Has(d, field) THEN "Missing required field"
     ELSE IF ~IsInstance(value, rule[2])
       THEN "Invalid type for required field. Expected " \o TypeName(rule[2])
     ELSE IF field = "invoice_date" /\ ~date_format(value)
       THEN "Invalid date format. Expected YYYY-MM-DD"
     ELSE IF field = "item_details" /\ Len(value.items) = 0
       THEN "item_details must be a non-empty list"
     ELSE ""

\* the entry the optional-field loop leaves for one field; dateFields are
\* the fields whose format is checked after their type
OptionalMessage(d, rule, dateFields) ==
  LET field == rule[1]
      value == d[field]
  IN IF ~(Has(d, field) /\ value \notin PLACEHOLDER_VALUES) THEN ""
     ELSE IF field \in dateFields /\ ~date_format(value)
       THEN "Invalid date format. Expected YYYY-MM-DD"
     ELSE IF ~IsInstance(value, rule[2])
       THEN "Invalid type for optional field. Expected " \o TypeName(rule[2])
     ELSE ""

\* the mapping of the entries msg(rule) writes over a rule table
Entries(table, msg(_)) ==
  LET hit == {i \in 1..Len(table) : msg(table[i]) # ""}
  IN [field \in {table[i][1] : i \in hit} |->
        msg(table[CHOOSE i \in hit : table[i][1] = field])]

\* the literal 0.01 of the arithmetic checks
Tolerance == FromRatio(1, 100)

\* expected_total = float(subtotal) + float(vat) - float(discount), then
\* abs(float(total) - expected_total) > 0.01; the amounts are in cents
ExceedsTolerance(subtotal, vat, discount, total) ==
  LET expected_total ==
        FSub(FAdd(FloatOf(subtotal), FloatOf(vat)), FloatOf(discount))
  IN FLess(Tolerance, FAbs(FSub(FloatOf(total), expected_total)))

\* the total check: what it appends to logical_checks.  validate_expense has
\* no discount: it is given None for it, and subtracting 0.0 changes nothing
TotalCheck(subtotal, vat, discount, total) ==
  IF ~(subtotal.k # "null" /\ vat.k # "null" /\ total.k # "null") THEN <<>>
  ELSE LET disc == IF discount.k # "null" THEN discount ELSE PyFloat(0)
           s == ToFloat(subtotal)
           v == ToFloat(vat)
           c == ToFloat(disc)
           t == ToFloat(total)
       IN IF ~(s.ok /\ v.ok /\ c.ok /\ t.ok)
            THEN <<"Error in logical total calculation">>
          ELSE IF ExceedsTolerance(s.n, v.n, c.n, t.n)
            THEN <<"Incorrect total summary">>
          ELSE <<>>

\* the report were the logical checks to append their entries without
\* setting status, as the except branch of the date logic does
ReportLogicalUnflagged(empty_fields, required, optional, items, logical) ==
  [status |-> IF /\ DOMAIN empty_fields = {} /\ DOMAIN required = {}
                 /\ DOMAIN optional = {} /\ DOMAIN items = {}
              THEN "pass" ELSE "fail",
   invalid_fields |-> items @@ optional @@ required @@ empty_fields,
   logical_checks |-> logical]

\* the report: status is set to "fail" wherever an entry is written
Report(empty_fields, required, optional, items, logical) ==
  [status |-> IF /\ DOMAIN empty_fields = {} /\ DOMAIN required = {}
                 /\ DOMAIN optional = {} /\ DOMAIN items = {}
                 /\ logical = <<>>
              THEN "pass" ELSE "fail",
   invalid_fields |-> items @@ optional @@ required @@ empty_fields,
   logical_checks |-> logical]

NoEntries == [field \in {} |-> ""]

validate_invoice(invoice) ==
  LET required(rule) == InvoiceRequiredMessage(invoice, rule)
      optional(rule) == OptionalMessage(invoice, rule, {"due_date"})
  IN Report(find_empty_fields(invoice, INVOICE_REQUIRED_FIELDS),
            Entries(INVOICE_REQUIRED_FIELDS, required),
            Entries(INVOICE_OPTIONAL_FIELDS, optional),
            NoEntries,
            TotalCheck(Get(invoice, "subtotal_amount"),
                       Get(invoice, "vat_amount"),
                       Get(invoice, "total_discount"),
                       Get(invoice, "total_amount")))

(***************************************************************************)
(* src/validate.py: validate_expense.  A function's outcome is             *)
(* [exc, report, calls]: exc names the exception that escapes it ("" when  *)
(* it returns), calls lists the validators entered.                        *)
(***************************************************************************)
NoReport == [pending |-> TRUE]

Returns(report, called) == [exc |-> "", report |-> report, calls |-> called]
Raises(exception, called) ==
  [exc |-> exception, report |-> NoReport, calls |-> called]

\* the entry the required-field loop writes for one field ("" for none)
ExpenseRequiredMessage(d, rule) ==
  LET field == rule[1]
      value == Get(d, field)
  IN IF ~Has(d, field) THEN "Missing required field"
     ELSE IF ~IsInstance(value, rule[2])
       THEN "Invalid type. Expected " \o TypeName(rule[2])
     ELSE IF field = "expense_items" /\ Len(value.items) = 0
       THEN "expense_items must be a non-empty list"
     ELSE ""

\* the date logic: what it appends to logical_checks.  Its except branch
\* ("Date format error") cannot be entered: date_format catches what
\* strptime raises, and the second strptime parses what the first accepted.
PeriodCheck(start, end) ==
  IF /\ Truthy(start) /\ Truthy(end) /\ date_format(start) /\ date_format(end)
     /\ Strptime(Chars(start.s)).ord > Strptime(Chars(end.s)).ord
  THEN <<"period_start is after period_end">>
  ELSE <<>>

\* the loop over expense_items: item.get raises AttributeError on an element
\* that is not a mapping
ItemsRaise(items) ==
  items.k = "list" /\ \E i \in 1..Len(items.items) : items.items[i].k # "dict"

ItemDateInvalid(item) ==
  LET date_val == Get(item.f, "date")
  IN date_val \notin PLACEHOLDER_VALUES /\ ~date_format(date_val)

ItemEntries(items) ==
  IF items.k # "list" THEN NoEntries
  ELSE [key \in {"expense_items " \o ToString(i) :
                   i \in {j \in 1..Len(items.items) :
                            ItemDateInvalid(items.items[j])}}
          |-> "Invalid date format. Expected YYYY-MM-DD"]

validate_expense(expense) ==
  LET required(rule) == ExpenseRequiredMessage(expense, rule)
      optional(rule) ==
        OptionalMessage(expense, rule,
                        {"report_date", "period_start", "period_end"})
      items == IF Has(expense, "expense_items") THEN expense["expense_items"]
               ELSE PyList(<<>>)
  IN IF ItemsRaise(items) THEN Raises("AttributeError", <<"validate_expense">>)
     ELSE Returns(
            Report(find_empty_fields(expense, EXPENSE_REQUIRED_FIELDS),
                   Entries(EXPENSE_REQUIRED_FIELDS, required),
                   Entries(EXPENSE_OPTIONAL_FIELDS, optional),
                   ItemEntries(items),
                   TotalCheck(Get(expense, "subtotal_amount"),
                              Get(expense, "vat_amount"),
                              PyNone,
                              Get(expense, "total_amount"))
                   \o PeriodCheck(Get(expense, "period_start"),
                                  Get(expense, "period_end"))),
            <<"validate_expense">>)

(***************************************************************************)
(* src/validate.py: validate_document.  The argument is [k, f]: its type   *)
(* and, for a mapping, its fields.                                         *)
(***************************************************************************)
UnknownTypeReport ==
  [status |-> "fail",
   invalid_fields |-> [field \in {"document_type"} |->
                         "Unknown or missing document_type"],
   logical_checks |-> <<>>]

validate_document(document) ==
  IF document.k # "dict" THEN Raises("AttributeError", <<>>)
  ELSE LET value == IF Has(document.f, "document_type")
                    THEN document.f["document_type"] ELSE PyStr("")
       IN IF value.k # "str" THEN Raises("AttributeError", <<>>)
          ELSE LET doc_type == Lower(Chars(value.s))
               IN IF doc_type = Chars("invoice")
                    THEN Returns(validate_invoice(document.f),
                                 <<"validate_invoice">>)
                  ELSE IF doc_type = Chars("expense_report")
                    THEN validate_expense(document.f)
                  ELSE Returns(UnknownTypeReport, <<>>)

(***************************************************************************)
(* src/normalize.py: invoice_validation_rules.                             *)
(***************************************************************************)
required_fields == <<"invoice_number", "invoice_date", "total_amount">>

important_fields ==
  <<"vendor_name", "due_date", "subtotal", "tax_amount", "line_items">>

expected_field_count == 10

field_types ==
  << <<"invoice_number", "string">>, <<"invoice_date", "date">>,
     <<"due_date", "date">>, <<"total_amount", "number">>,
     <<"subtotal", "number">>, <<"tax_amount", "number">>,
     <<"line_items", "array">>, <<"vendor_name", "string">>,
     <<"client_name", "string">>, <<"payment_terms", "string">> >>

\* the fields of "formats"; only the date fields' patterns are ever applied
formats == {"invoice_date", "due_date", "invoice_number"}

\* the fields of "constraints", each with "min": 0
constraints == <<"total_amount", "subtotal", "tax_amount">>

logical_checks ==
  << [name |-> "dates_chronology",
      fields |-> <<"invoice_date", "due_date">>,
      error_message |-> "Due date must be on or after invoice date"],
     [name |-> "amount_calculation",
      fields |-> <<"subtotal", "tax_amount", "total_amount">>,
      error_message |-> "Total amount should equal subtotal plus tax amount"],
     [name |-> "line_items_sum",
      fields |-> <<"line_items", "subtotal">>,
      error_message |-> "Line items should sum to subtotal"] >>

\* the patterns matched as they are spelled, without re.IGNORECASE
CaseSensitivePatterns(field, cs) ==
  LET zeros == Len(cs) > 0 /\ \A i \in 1..Len(cs) : cs[i] = "0"
      common == {Chars("N/A"), Chars("Unknown"), Chars("TBD")}
  IN CASE field = "invoice_number" -> cs \in common \/ zeros
       [] field \in {"vendor_name", "client_name"} ->
            cs \in common \union {Chars("None")}
       [] OTHER -> FALSE

\* re.match(placeholder_patterns[field], value, re.IGNORECASE)
placeholder_patterns(field, cs) ==
  LET low == Lower(cs)
      zeros == Len(cs) > 0 /\ \A i \in 1..Len(cs) : cs[i] = "0"
      common == {Lower(Chars("N/A")), Lower(Chars("Unknown")),
                 Lower(Chars("TBD"))}
  IN CASE field = "invoice_number" -> low \in common \/ zeros
       [] field \in {"vendor_name", "client_name"} ->
            low \in common \union {Lower(Chars("None"))}
       [] OTHER -> FALSE

placeholder_fields == {"invoice_number", "vendor_name", "client_name"}

(***************************************************************************)
(* src/normalize.py: the confidence, a float.                              *)
(***************************************************************************)
\* the weights of the required fields and of the logical checks exchanged
WeightsExchanged ==
  [required_fields |-> FromRatio(2, 10), important_fields |-> FromRatio(2, 10),
   logical_checks |-> FromRatio(5, 10), field_count |-> FromRatio(1, 10)]

\* confidence_rules["weights"]
weights ==
  [required_fields |-> FromRatio(5, 10), important_fields |-> FromRatio(2, 10),
   logical_checks |-> FromRatio(2, 10), field_count |-> FromRatio(1, 10)]

\* the suspicious-value penalty: 0.1 for each value, of at most PenaltyCap
Penalty == FromRatio(1, 10)
PenaltyCap == 5

\* the literals 0.9, 0.7 and 0.5 of the confidence interpretation
HighLimit == FromRatio(9, 10)
MediumLimit == FromRatio(7, 10)
LowLimit == FromRatio(5, 10)

One == [neg |-> FALSE, m |-> <<1>>, e |-> 0]

\* max(0, min(1, confidence))
Clamp(confidence) ==
  IF ~FLess(confidence, One) THEN One
  ELSE IF ~FLess(Zero, confidence) THEN Zero
  ELSE confidence

\* the levels with each limit one band too low
LevelsOneBandLow(confidence) ==
  IF ~FLess(confidence, MediumLimit) THEN "High"
  ELSE IF ~FLess(confidence, LowLimit) THEN "Medium"
  ELSE IF FLess(Zero, confidence) THEN "Low"
  ELSE "Very Low"

\* the confidence interpretation
confidence_level(confidence) ==
  IF ~FLess(confidence, HighLimit) THEN "High"
  ELSE IF ~FLess(confidence, MediumLimit) THEN "Medium"
  ELSE IF ~FLess(confidence, LowLimit) THEN "Low"
  ELSE "Very Low"

(***************************************************************************)
(* src/normalize.py: validate_logical_check.  The outcome is "pass",       *)
(* "fail" or the name of the exception raised.                             *)
(***************************************************************************)
\* the messages appended for the elements of a sequence, in order: msgs[i]
\* are those of element i
Collect(msgs) ==
  LET acc[i \in 0..Len(msgs)] ==
        IF i = 0 THEN <<>> ELSE acc[i - 1] \o msgs[i]
  IN acc[Len(msgs)]

\* how many elements of a sequence count: counts[i] tells of element i
Count(counts) == Cardinality({i \in 1..Len(counts) : counts[i]})

Range(xs) == {xs[i] : i \in 1..Len(xs)}

fields_present(d, check) ==
  \A i \in 1..Len(check.fields) : HasValue(d, check.fields[i])

\* what one line item adds to line_items_sum
ItemAmount(item) ==
  IF IsNumber(item.f["total"]) THEN FloatOf(item.f["total"].n)
  ELSE IF IsNumber(item.f["quantity"]) /\ IsNumber(item.f["unit_price"])
    THEN FMul(FloatOf(item.f["quantity"].n), FloatOf(item.f["unit_price"].n))
  ELSE Zero

\* line_items_sum after the loop over the items
RECURSIVE SumItems(_)
SumItems(items) ==
  IF items = <<>> THEN Zero
  ELSE FAdd(SumItems(SubSeq(items, 1, Len(items) - 1)),
            ItemAmount(items[Len(items)]))

Verdict(passes) == IF passes THEN "pass" ELSE "fail"

validate_logical_check(invoice, check) ==
  IF ~fields_present(invoice, check) THEN "pass"
  ELSE IF check.name = "dates_chronology" THEN
    LET inv == invoice["invoice_date"]
        due == invoice["due_date"]
    IN IF inv.k # "str" THEN "TypeError"
       ELSE IF ~FromIsoFormat(Chars(inv.s)).ok THEN "ValueError"
       ELSE IF due.k # "str" THEN "TypeError"
       ELSE IF ~FromIsoFormat(Chars(due.s)).ok THEN "ValueError"
       ELSE Verdict(FromIsoFormat(Chars(inv.s)).ord
                      <= FromIsoFormat(Chars(due.s)).ord)
  ELSE IF check.name = "amount_calculation" THEN
    LET subtotal == invoice["subtotal"]
        tax_amount == invoice["tax_amount"]
        total_amount == invoice["total_amount"]
    IN IF ~(IsNumber(subtotal) /\ IsNumber(tax_amount) /\ IsNumber(total_amount))
         THEN "TypeError"
       ELSE Verdict(FLess(FAbs(FSub(FAdd(FloatOf(subtotal.n),
                                         FloatOf(tax_amount.n)),
                                    FloatOf(total_amount.n))),
                          Tolerance))
  ELSE IF check.name = "line_items_sum" THEN
    LET line_items == invoice["line_items"]
        subtotal == invoice["subtotal"]
    IN IF line_items.k # "list" \/ Len(line_items.items) = 0 THEN "pass"
       ELSE IF \E i \in 1..Len(line_items.items) : line_items.items[i].k # "dict"
         THEN "AttributeError"
       ELSE IF ~IsNumber(subtotal) THEN "TypeError"
       ELSE Verdict(FLess(FAbs(FSub(SumItems(line_items.items),
                                    FloatOf(subtotal.n))),
                          Tolerance))
  ELSE "pass"

(***************************************************************************)
(* src/normalize.py: validate_invoice_data.                                *)
(***************************************************************************)
Quoted(field) == "Field \"" \o field \o "\""

\* the error the type loop appends for one field
FieldTypeError(d, rule) ==
  LET field == rule[1]
      expected_type == rule[2]
      value == d[field]
  IN IF ~HasValue(d, field) THEN <<>>
     ELSE IF expected_type = "string" /\ value.k # "str"
       THEN <<Quoted(field) \o " must be a string">>
     ELSE IF expected_type = "number" /\ ~IsNumber(value)
       THEN <<Quoted(field) \o " must be a number">>
     ELSE IF expected_type = "array" /\ value.k # "list"
       THEN <<Quoted(field) \o " must be an array">>
     ELSE IF expected_type = "date" /\ value.k # "str"
       THEN <<Quoted(field) \o " must be a date string">>
     ELSE IF expected_type = "date" /\ field \in formats
                /\ ~MatchesIsoPattern(Chars(value.s))
       THEN <<Quoted(field) \o " has invalid date format. Expected: YYYY-MM-DD">>
     ELSE IF expected_type = "date" /\ field \notin formats
                /\ ~FromIsoFormat(Chars(value.s)).ok
       THEN <<Quoted(field) \o " contains an invalid date">>
     ELSE <<>>

\* whether the type loop counts the field's value as suspicious
Suspicious(d, rule) ==
  LET field == rule[1]
      value == d[field]
  IN /\ HasValue(d, field)
     /\ field \in placeholder_fields
     /\ value.k = "str"
     /\ placeholder_patterns(field, Chars(value.s))

PlaceholderWarning(d, rule) ==
  IF Suspicious(d, rule)
  THEN <<Quoted(rule[1]) \o " appears to contain a placeholder value: \""
         \o d[rule[1]].s \o "\"">>
  ELSE <<>>

\* `value < constraint["min"]` raises TypeError unless value is a number
ConstraintRaises(d) ==
  \E i \in 1..Len(constraints) :
    HasValue(d, constraints[i]) /\ ~IsNumber(d[constraints[i]])

ConstraintError(d, field) ==
  IF HasValue(d, field) /\ d[field].n < 0
  THEN <<Quoted(field) \o " must be at least 0">>
  ELSE <<>>

\* the outcomes of validate_logical_check for the checks of the table
Verdicts(d) ==
  [i \in DOMAIN logical_checks |-> validate_logical_check(d, logical_checks[i])]

\* the exception the logical checks raise ("" for none): that of the first
\* check, in the table's order, that raises
LogicalException(verdicts) ==
  IF \A i \in DOMAIN verdicts : verdicts[i] \in {"pass", "fail"} THEN ""
  ELSE verdicts[CHOOSE i \in DOMAIN verdicts :
                  /\ verdicts[i] \notin {"pass", "fail"}
                  /\ \A j \in 1..(i - 1) : verdicts[j] \in {"pass", "fail"}]

\* the errors the logical checks append
LogicalErrors(d, verdicts) ==
  Collect([i \in DOMAIN logical_checks |->
             IF fields_present(d, logical_checks[i]) /\ verdicts[i] = "fail"
             THEN <<logical_checks[i].error_message>>
             ELSE <<>>])

\* the metrics the confidence is computed from
Metrics(d, verdicts) ==
  LET present(field) == HasValue(d, field)
      other == {field \in DOMAIN d :
                  /\ field \notin Range(required_fields)
                  /\ field \notin Range(important_fields)
                  /\ d[field].k \notin {"absent", "null"}}
      evaluated == {i \in DOMAIN logical_checks :
                      fields_present(d, logical_checks[i])}
      suspicious(rule) == Suspicious(d, rule)
      count(xs, pred(_)) == Count([i \in DOMAIN xs |-> pred(xs[i])])
  IN [required_fields_present |-> count(required_fields, present),
      required_fields_total |-> Len(required_fields),
      important_fields_present |-> count(important_fields, present),
      important_fields_total |-> Len(important_fields),
      logical_checks_valid |->
        Cardinality({i \in evaluated : verdicts[i] = "pass"}),
      logical_checks_total |-> Cardinality(evaluated),
      fields_with_values |-> count(required_fields, present)
                             + count(important_fields, present)
                             + Cardinality(other),
      suspicious_values |-> count(field_types, suspicious)]

\* present / total, and 0 for an empty total
ScoreOfNoneIsZero(present, total) ==
  IF total > 0 THEN FromRatio(present, total) ELSE Zero

\* present / total, or 1 for an empty total
Score(present, total) ==
  IF total > 0 THEN FromRatio(present, total) ELSE One

\* min(1, ratio)
AtMostOne(ratio) == IF FLess(ratio, One) THEN ratio ELSE One

\* the weighted sum, before it is clamped
WeightedSum(m, confidence_weights) ==
  LET required_fields_score ==
        Score(m.required_fields_present, m.required_fields_total)
      important_fields_score ==
        Score(m.important_fields_present, m.important_fields_total)
      logical_checks_score ==
        Score(m.logical_checks_valid, m.logical_checks_total)
      completeness_score ==
        AtMostOne(FromRatio(m.fields_with_values, expected_field_count))
      suspicious_value_penalty ==
        FMul(Penalty, FromRatio(Min(m.suspicious_values, PenaltyCap), 1))
  IN FSub(FAdd(FAdd(FAdd(FMul(confidence_weights.required_fields,
                              required_fields_score),
                         FMul(confidence_weights.important_fields,
                              important_fields_score)),
                    FMul(confidence_weights.logical_checks,
                         logical_checks_score)),
               FMul(confidence_weights.field_count, completeness_score)),
          suspicious_value_penalty)

NotAnObjectReport ==
  [valid |-> FALSE,
   errors |-> <<"Invalid invoice data: must be a JSON object">>,
   warnings |-> <<>>,
   confidence |-> Zero]

\* the report of a validation that raised nothing
Scored(valid, errors, warnings, confidence) ==
  Returns([valid |-> valid,
           errors |-> errors,
           warnings |-> warnings,
           confidence |-> confidence,
           confidence_level |-> confidence_level(confidence)],
          <<"validate_invoice_data">>)

\* validate_invoice_data of a mapping d whose logical checks come out as
\* verdicts
Validated(d, verdicts) ==
  LET missing_required(field) ==
        IF HasValue(d, field) THEN <<>>
        ELSE <<"Missing required field: " \o field>>
      missing_important(field) ==
        IF HasValue(d, field) THEN <<>>
        ELSE <<"Missing important field: " \o field>>
      type_error(rule) == FieldTypeError(d, rule)
      placeholder_warning(rule) == PlaceholderWarning(d, rule)
      constraint_error(field) == ConstraintError(d, field)
      collect(xs, msg(_)) == Collect([i \in DOMAIN xs |-> msg(xs[i])])
      \* result["valid"] stays True unless one of the steps clears it
      valid == /\ \A field \in Range(required_fields) : HasValue(d, field)
               /\ \A rule \in Range(field_types) : type_error(rule) = <<>>
               /\ \A field \in Range(constraints) :
                    constraint_error(field) = <<>>
               /\ LogicalErrors(d, verdicts) = <<>>
  IN IF ConstraintRaises(d)
       THEN Raises("TypeError", <<"validate_invoice_data">>)
     ELSE IF LogicalException(verdicts) # ""
       THEN Raises(LogicalException(verdicts), <<"validate_invoice_data">>)
     ELSE Scored(valid,
                 collect(required_fields, missing_required)
                 \o collect(field_types, type_error)
                 \o collect(constraints, constraint_error)
                 \o LogicalErrors(d, verdicts),
                 collect(important_fields, missing_important)
                 \o collect(field_types, placeholder_warning),
                 Clamp(WeightedSum(Metrics(d, verdicts), weights)))

validate_invoice_data(invoice_data) ==
  IF invoice_data.k # "dict"
    THEN Returns(NotAnObjectReport, <<"validate_invoice_data">>)
  ELSE Validated(invoice_data.f, Verdicts(invoice_data.f))

(***************************************************************************)
(* The records the validators are applied to.  A record gives every field  *)
(* name of the rule tables a value, Absent for a key it does not hold.     *)
(***************************************************************************)
Fields ==
  Names(INVOICE_REQUIRED_FIELDS) \union Names(INVOICE_OPTIONAL_FIELDS)
  \union Names(EXPENSE_REQUIRED_FIELDS) \union Names(EXPENSE_OPTIONAL_FIELDS)
  \union {"vendor_name", "client_name", "subtotal", "tax_amount", "line_items"}

Mapping(f) == [k |-> "dict", s |-> "", f |-> f @@ [field \in Fields |-> Absent]]
\* a top-level input that is not a mapping; text is what a str holds
NotMapping(kind, text) ==
  [k |-> kind, s |-> text, f |-> [field \in Fields |-> Absent]]

\* a structured invoice whose amounts reconcile: 100.00 + 10.00 = 110.00
StructuredInvoice ==
  Mapping("document_type" :> PyStr("invoice")
          @@ "invoice_number" :> PyStr("INV-2023-001")
          @@ "invoice_date" :> PyStr("2023-05-15")
          @@ "due_date" :> PyStr("2023-06-15")
          @@ "vendor_information" :> PyDict
          @@ "buyer_information" :> PyDict
          @@ "item_details" :> PyList(<<Item("amount" :> PyFloat(5000)),
                                        Item("amount" :> PyFloat(5000))>>)
          @@ "subtotal_amount" :> PyFloat(10000)
          @@ "vat_amount" :> PyFloat(1000)
          @@ "total_amount" :> PyFloat(11000))

\* the same invoice with its amounts written without a fraction (100, 10, 110)
IntegerInvoice ==
  [StructuredInvoice EXCEPT !.f["subtotal_amount"] = PyInt(10000),
                            !.f["vat_amount"] = PyInt(1000),
                            !.f["total_amount"] = PyInt(11000)]

ExpenseReport ==
  Mapping("document_type" :> PyStr("expense_report")
          @@ "employee_name" :> PyStr("Acme")
          @@ "expense_items" :> PyList(<<Item("date" :> PyStr("2023-05-15")
                                              @@ "amount" :> PyFloat(11000))>>)
          @@ "period_start" :> PyStr("2023-04-15")
          @@ "period_end" :> PyStr("2023-06-15")
          @@ "subtotal_amount" :> PyFloat(10000)
          @@ "vat_amount" :> PyFloat(1000)
          @@ "total_amount" :> PyFloat(11000))

EmptyRecord == Mapping(<<>>)

\* the example invoices of src/normalize.py
valid_invoice ==
  Mapping("invoice_number" :> PyStr("INV-2023-001")
          @@ "invoice_date" :> PyStr("2023-05-15")
          @@ "due_date" :> PyStr("2023-06-15")
          @@ "vendor_name" :> PyStr("Acme Corp")
          @@ "client_name" :> PyStr("Globex Inc.")
          @@ "subtotal" :> PyFloat(100000)
          @@ "tax_amount" :> PyFloat(25050)
          @@ "total_amount" :> PyFloat(125050)
          @@ "payment_terms" :> PyStr("Net 30")
          @@ "currency" :> PyStr("USD")
          @@ "line_items" :>
               PyList(<<Item("quantity" :> PyInt(200)
                             @@ "unit_price" :> PyFloat(25000)
                             @@ "total" :> PyFloat(50000)),
                        Item("quantity" :> PyInt(500)
                             @@ "unit_price" :> PyFloat(10000)
                             @@ "total" :> PyFloat(50000))>>))

invalid_invoice ==
  Mapping("invoice_date" :> PyStr("05/15/2023")
          @@ "due_date" :> PyStr("2023-04-15")
          @@ "vendor_name" :> PyStr("N/A")
          @@ "total_amount" :> PyStr("1250.50")
          @@ "subtotal" :> PyFloat(100000)
          @@ "tax_amount" :> PyFloat(20000))

partial_invoice ==
  Mapping("invoice_number" :> PyStr("INV-2023-002")
          @@ "invoice_date" :> PyStr("2023-05-20")
          @@ "total_amount" :> PyFloat(50000))

(***************************************************************************)
(* src/normalize.py: validate_invoice_file.                                *)
(***************************************************************************)
\* json.loads(text): [ok, data]; ok is FALSE for JSONDecodeError.  The texts
\* read are an empty object, null, and numbers without sign or exponent.
JsonLoads(text) ==
  LET cs == Chars(text)
  IN IF text = "{}" THEN [ok |-> TRUE, data |-> EmptyRecord]
     ELSE IF text = "null" THEN [ok |-> TRUE, data |-> NotMapping("null", "")]
     ELSE IF /\ ToFloat(PyStr(text)).ok
             /\ (cs[1] # "0" \/ Len(cs) = 1 \/ cs[2] = ".")
       THEN [ok |-> TRUE,
             data |-> NotMapping(IF Positions(cs, ".") = {} THEN "int"
                                 ELSE "float", "")]
     ELSE [ok |-> FALSE, data |-> NotMapping("null", "")]

AbortReport(message) ==
  [valid |-> FALSE,
   errors |-> <<message>>,
   warnings |-> <<>>,
   confidence |-> Zero,
   confidence_level |-> "Very Low"]

\* the LINE ITEMS listing calls item.items() on every element
ListingRaises(data) ==
  /\ data.f["line_items"].k = "list"
  /\ \E i \in 1..Len(data.f["line_items"].items) :
       data.f["line_items"].items[i].k # "dict"

\* what validate_invoice_file makes of the outcome o of validate_invoice_data
Reported(data, o, entered) ==
  IF \/ o.exc # ""
     \/ "confidence_level" \notin DOMAIN o.report
     \/ ListingRaises(data)
    THEN Returns(AbortReport("Validation error"), entered \o o.calls)
  ELSE Returns(o.report, entered \o o.calls)

\* validate_invoice_file once json_data is parsed
Loaded(parsed, entered) ==
  IF ~parsed.ok THEN Returns(AbortReport("JSON parsing error"), entered)
  ELSE Reported(parsed.data, validate_invoice_data(parsed.data), entered)

validate_invoice_file(json_data) ==
  Loaded(IF json_data.k = "str" THEN JsonLoads(json_data.s)
         ELSE [ok |-> TRUE, data |-> json_data],
         <<"validate_invoice_file">>)

(***************************************************************************)
(* The inputs.  Every record is one of the base records with some of its   *)
(* fields replaced; each family below varies the fields one group of       *)
(* checks reads.                                                           *)
(***************************************************************************)
Bases ==
  {EmptyRecord, StructuredInvoice, IntegerInvoice, ExpenseReport,
   valid_invoice, invalid_invoice, partial_invoice}

\* values of every JSON type, which any field may hold
GenericValues ==
  {Absent, PyNone, PyStr(""), PyStr("N/A"), PyStr("abc"), PyStr("2023-04-15"),
   PyStr("1.02"), PyInt(300), PyFloat(102), PyFloat(-100), PyBool(TRUE),
   PyList(<<>>), PyList(<<Item("amount" :> PyFloat(102))>>),
   PyList(<<Scalar("str")>>), PyDict}

\* valid_invoice with a placeholder for the vendor's name
placeholder_invoice == [valid_invoice EXCEPT !.f["vendor_name"] = PyStr("N/A")]

\* one field of a record replaced by a value of any type
OneFieldReplaced ==
  {[b EXCEPT !.f[field] = v] :
     b \in {EmptyRecord, StructuredInvoice, ExpenseReport, valid_invoice,
            placeholder_invoice},
     field \in Fields, v \in GenericValues}

DocumentTypes ==
  {Absent, PyNone, PyInt(100), PyList(<<>>), PyStr(""), PyStr(" "),
   PyStr("invoice"), PyStr("INVOICE"), PyStr("Invoice"),
   PyStr("expense_report"), PyStr("Expense_Report"), PyStr("receipt")}

DocumentTypeReplaced ==
  {[b EXCEPT !.f["document_type"] = v] :
     b \in {EmptyRecord, StructuredInvoice, ExpenseReport, valid_invoice},
     v \in DocumentTypes}

\* what an extractor leaves in a field it could not fill
Blanks == {Absent, PyNone, PyStr(""), PyStr("N/A"), PyStr("null"), PyStr(" ")}

Blanked(b, S, v) ==
  [b EXCEPT !.f = [field \in Fields |-> IF field \in S THEN v ELSE b.f[field]]]

\* any set of required fields blanked
RequiredBlanked ==
  {Blanked(StructuredInvoice, S, v) :
     S \in SUBSET Names(INVOICE_REQUIRED_FIELDS), v \in Blanks}
  \union
  {Blanked(ExpenseReport, S, v) :
     S \in SUBSET Names(EXPENSE_REQUIRED_FIELDS), v \in Blanks}

\* the amounts of the arithmetic checks: missing, null or 0..MaxAmount cents
Amounts == {Absent, PyNone} \union {PyFloat(c) : c \in 0..MaxAmount}

\* the discounts: missing, null, none and the largest amount
Discounts == {Absent, PyNone, PyFloat(0), PyFloat(MaxAmount)}

AmountsReplaced ==
  {[StructuredInvoice EXCEPT !.f["subtotal_amount"] = s, !.f["vat_amount"] = v,
                             !.f["total_discount"] = c, !.f["total_amount"] = t] :
     s \in Amounts, v \in Amounts, c \in Discounts, t \in Amounts}
  \union
  {[ExpenseReport EXCEPT !.f["subtotal_amount"] = s, !.f["vat_amount"] = v,
                         !.f["total_amount"] = t] :
     s \in Amounts, v \in Amounts, t \in Amounts}
  \union
  {[valid_invoice EXCEPT !.f["subtotal"] = s, !.f["tax_amount"] = v,
                         !.f["total_amount"] = t] :
     s \in Amounts, v \in Amounts, t \in Amounts}

Dates ==
  {Absent, PyNone, PyInt(100), PyStr(""), PyStr("2023-04-15"),
   PyStr("2023-05-15"), PyStr("2024-01-02"), PyStr("2023-5-1"),
   PyStr("2023-13-45"), PyStr("05/15/2023")}

DatesReplaced ==
  {[b EXCEPT !.f["invoice_date"] = s, !.f["due_date"] = e] :
     b \in {StructuredInvoice, valid_invoice}, s \in Dates, e \in Dates}
  \union
  {[ExpenseReport EXCEPT !.f["period_start"] = s, !.f["period_end"] = e] :
     s \in Dates, e \in Dates}

\* valid_invoice with two fields more: ten fields besides the required ones
annotated_invoice ==
  [valid_invoice EXCEPT !.f["remarks"] = PyStr("abc"),
                        !.f["purchase_order_number"] = PyStr("abc")]

\* valid_invoice with any of its required and important fields dropped, its
\* other fields kept, dropped or two more
FieldsDropped ==
  {Blanked(b, S, Absent) :
     b \in {valid_invoice, annotated_invoice,
            Blanked(valid_invoice,
                    {"client_name", "payment_terms", "currency"}, Absent)},
     S \in SUBSET (Range(required_fields) \union Range(important_fields))}

Names3 ==
  {Absent, PyStr("Acme Corp"), PyStr("N/A"), PyStr("n/a"), PyStr("Unknown"),
   PyStr("None"), PyStr("000")}

NamesReplaced ==
  {[valid_invoice EXCEPT !.f["invoice_number"] = n, !.f["vendor_name"] = v,
                         !.f["client_name"] = c] :
     n \in Names3, v \in Names3, c \in Names3}

\* the elements of line_items: mappings with a total, an amount, a quantity
\* and a unit price, and an element that is no mapping
LineItems ==
  {Item("total" :> PyFloat(1)), Item("amount" :> PyFloat(1)),
   Item("quantity" :> PyInt(200) @@ "unit_price" :> PyFloat(1)),
   Scalar("str")}

\* the elements of expense_items: mappings with a date (good, bad, blank),
\* and an element that is no mapping
ExpenseItems ==
  {Item("date" :> PyStr("2023-05-15")), Item("date" :> PyStr("05/15/2023")),
   Item("date" :> PyStr("N/A")), Scalar("str")}

\* the lists of at most n of the elements
RECURSIVE Lists(_, _)
Lists(elements, n) ==
  IF n = 0 THEN {<<>>}
  ELSE Lists(elements, n - 1)
       \union {Append(xs, x) :
                 xs \in {l \in Lists(elements, n - 1) : Len(l) = n - 1},
                 x \in elements}

ListsReplaced ==
  {[valid_invoice EXCEPT !.f["line_items"] = PyList(xs), !.f["subtotal"] = s] :
     xs \in Lists(LineItems, MaxItems), s \in Amounts}
  \union
  {[ExpenseReport EXCEPT !.f["expense_items"] = PyList(xs)] :
     xs \in Lists(ExpenseItems, MaxItems)}

\* top-level inputs that are not a mapping
NotMappings ==
  {NotMapping("null", ""), NotMapping("int", ""), NotMapping("float", ""),
   NotMapping("bool", ""), NotMapping("list", "")}
  \union {NotMapping("str", text) : text \in {"", "abc", "{}", "null", "3", "1.02", "000"}}

Records ==
  Bases \union OneFieldReplaced \union DocumentTypeReplaced \union RequiredBlanked
  \union AmountsReplaced \union DatesReplaced \union FieldsDropped
  \union NamesReplaced \union ListsReplaced \union NotMappings

(***************************************************************************)
(* The state machine: an entry point is called on the record and returns   *)
(* a report or raises.                                                     *)
(***************************************************************************)
\* what load_json finds at file_path: no file, text that is no JSON, or the
\* parsed value of kind k; docs are the documents of a list, or the one
\* document that a mapping is
JsonFile(kind, docs) == [k |-> kind, docs |-> docs]
NoFile == JsonFile("missing", <<>>)

Init ==
  /\ record \in Records
  /\ pc = "start"
  /\ calls = <<>>
  /\ result = NoReport
  /\ exc = ""
  /\ loaded = NoFile
  /\ position = 0
  /\ printed = <<>>

Finish(outcome, entry) ==
  /\ pc' = IF outcome.exc = "" THEN "returned" ELSE "raised"
  /\ calls' = entry \o outcome.calls
  /\ result' = outcome.report
  /\ exc' = outcome.exc
  /\ UNCHANGED <<record, loaded, position, printed>>

\* validate_document(record)
CallValidateDocument ==
  /\ pc = "start"
  /\ Finish(validate_document(record), <<"validate_document">>)

\* validate_invoice(record), called directly
CallValidateInvoice ==
  /\ pc = "start"
  /\ Finish(IF record.k # "dict" THEN Raises("AttributeError", <<>>)
            ELSE Returns(validate_invoice(record.f), <<>>),
            <<"validate_invoice">>)

\* validate_expense(record), called directly
CallValidateExpense ==
  /\ pc = "start"
  /\ Finish(IF record.k # "dict"
            THEN Raises("AttributeError", <<"validate_expense">>)
            ELSE validate_expense(record.f), <<>>)

\* validate_invoice_data(record)
CallValidateInvoiceData ==
  /\ pc = "start"
  /\ Finish(validate_invoice_data(record), <<>>)

\* validate_invoice_file(record)
CallValidateInvoiceFile ==
  /\ pc = "start"
  /\ Finish(validate_invoice_file(record), <<>>)

Next ==
  \/ CallValidateDocument
  \/ CallValidateInvoice
  \/ CallValidateExpense
  \/ CallValidateInvoiceData
  \/ CallValidateInvoiceFile

Spec == Init /\ [][Next]_vars

(***************************************************************************)
(* src/validate.py run as a script: load_json reads a file of documents    *)
(* and print_validation_result validates them one after the other.  pc is  *)
(* the position of the script, position the index of the document the loop *)
(* is at, printed the lines written so far.                                *)
(***************************************************************************)
\* a document whose document_type is v
Typed(v) == [StructuredInvoice EXCEPT !.f["document_type"] = v]

\* the documents a file may hold: invoices and an expense report that pass
\* or fail, an unknown type, a null and an integer document_type, and
\* elements that are not mappings
Documents ==
  {StructuredInvoice, ExpenseReport, EmptyRecord,
   [StructuredInvoice EXCEPT !.f["invoice_number"] = PyStr("N/A")],
   Typed(PyStr("receipt")), Typed(PyNone), Typed(PyInt(100)),
   NotMapping("null", ""), NotMapping("str", "abc")}

Files ==
  {NoFile, JsonFile("undecodable", <<>>)}
  \union {JsonFile(kind, <<>>) : kind \in {"null", "int", "str", "bool"}}
  \union {JsonFile("dict", <<d>>) : d \in {x \in Documents : x.k = "dict"}}
  \union {JsonFile("list", docs) : docs \in Lists(Documents, MaxDocuments)}

BatchInit ==
  /\ loaded \in Files
  /\ pc = "load_json"
  /\ position = 0
  /\ printed = <<>>
  /\ record = EmptyRecord
  /\ calls = <<>>
  /\ result = NoReport
  /\ exc = ""

\* result['status'].upper()
Upper(status) == IF status = "pass" THEN "PASS" ELSE "FAIL"

\* load_json up to the call of print_validation_result: a missing file, text
\* that is no JSON and a value that is neither a mapping nor a list are
\* reported and end the run; a mapping becomes a list of one document
LoadJson ==
  /\ pc = "load_json"
  /\ IF loaded.k = "missing"
       THEN /\ printed' = <<"File not found">>
            /\ pc' = "done"
            /\ UNCHANGED loaded
     ELSE IF loaded.k = "undecodable"
       THEN /\ printed' = <<"Error: Invalid JSON format">>
            /\ pc' = "done"
            /\ UNCHANGED loaded
     ELSE IF loaded.k = "dict"
       THEN /\ loaded' = JsonFile("list", loaded.docs)
            /\ printed' = <<"File">>
            /\ pc' = "print_validation_result"
     ELSE IF loaded.k # "list"
       THEN /\ printed' = <<"Error: JSON file must contain an invoice or expense object or a list of documents.">>
            /\ pc' = "done"
            /\ UNCHANGED loaded
     ELSE /\ printed' = <<"File">>
          /\ pc' = "print_validation_result"
          /\ UNCHANGED loaded
  /\ position' = 1
  /\ UNCHANGED <<record, calls, result, exc>>

\* one turn of `for document in data`: validate_document is called on the
\* document and its status printed; nothing in the loop, nor in load_json,
\* catches what validate_document raises
ValidateNextDocument ==
  /\ pc = "print_validation_result"
  /\ position <= Len(loaded.docs)
  /\ LET outcome == validate_document(loaded.docs[position])
     IN /\ record' = loaded.docs[position]
        /\ calls' = calls \o <<"validate_document">> \o outcome.calls
        /\ result' = outcome.report
        /\ exc' = outcome.exc
        /\ IF outcome.exc = ""
             THEN /\ printed' = Append(printed, "Validation Status: "
                                                 \o Upper(outcome.report.status))
                  /\ position' = position + 1
                  /\ pc' = "print_validation_result"
           ELSE /\ pc' = "raised"
                /\ UNCHANGED <<printed, position>>
  /\ UNCHANGED loaded

\* the loop is exhausted: print_validation_result and load_json return
ReturnFromLoop ==
  /\ pc = "print_validation_result"
  /\ position > Len(loaded.docs)
  /\ pc' = "done"
  /\ UNCHANGED <<record, calls, result, exc, loaded, position, printed>>

\* `except Exception as e` of the script: the error is printed and the
\* script ends
MainCatches ==
  /\ pc = "raised"
  /\ printed' = Append(printed, "Error: " \o exc)
  /\ pc' = "caught"
  /\ UNCHANGED <<record, calls, result, exc, loaded, position>>

BatchNext ==
  \/ LoadJson
  \/ ValidateNextDocument
  \/ ReturnFromLoop
  \/ MainCatches

BatchSpec == BatchInit /\ [][BatchNext]_vars

(***************************************************************************)
(* The claims.  A state with pc # "start" records one call: calls[1] is    *)
(* the function called on `record`, pc whether it returned or raised, and  *)
(* result the report it returned.                                          *)
(***************************************************************************)
Called(entry) == pc # "start" /\ calls[1] = entry
Returned(entry) == pc = "returned" /\ calls[1] = entry

\* the spellings of the two document types among the inputs
InvoiceSpellings == {"invoice", "INVOICE", "Invoice"}
ExpenseSpellings == {"expense_report", "Expense_Report"}

IsInvoiceDocument ==
  record.f["document_type"].k = "str"
  /\ record.f["document_type"].s \in InvoiceSpellings
IsExpenseDocument ==
  record.f["document_type"].k = "str"
  /\ record.f["document_type"].s \in ExpenseSpellings

\* C1: validate_document, given a mapping whose document_type is absent or is
\* a string other than "invoice" and "expense_report" in any letter case,
\* returns exactly status "fail", the one invalid field document_type with
\* "Unknown or missing document_type" and no logical checks, and enters
\* neither validator; given "invoice" or "expense_report" in any letter case
\* it enters validate_invoice or validate_expense.
C1_UnknownTypeFailsKnownTypeDispatches ==
  (/\ Called("validate_document")
   /\ record.k = "dict"
   /\ record.f["document_type"].k \in {"absent", "str"})
  => IF IsInvoiceDocument
       THEN calls = <<"validate_document", "validate_invoice">>
     ELSE IF IsExpenseDocument
       THEN calls = <<"validate_document", "validate_expense">>
     ELSE /\ pc = "returned"
          /\ calls = <<"validate_document">>
          /\ result = [status |-> "fail",
                       invalid_fields |->
                         [field \in {"document_type"} |->
                            "Unknown or missing document_type"],
                       logical_checks |-> <<>>]

\* an invoice that is complete but for its document_type "receipt" is
\* rejected without its fields being looked at
C1_Witness ==
  /\ Returned("validate_document")
  /\ record = [StructuredInvoice EXCEPT !.f["document_type"] = PyStr("receipt")]
  /\ calls = <<"validate_document">>
  /\ DOMAIN result.invalid_fields = {"document_type"}

\* C2: validate_document returns a report and never raises, whatever values
\* the fields of the mapping hold (a null or non-string document_type, list
\* elements that are no mappings).
C2_DocumentNeverRaises ==
  (Called("validate_document") /\ record.k = "dict") => pc = "returned"

HasError(message) ==
  \E i \in 1..Len(result.errors) : result.errors[i] = message

\* C3: in validate_invoice_data and validate_invoice_file a type or format
\* violation of a field does not stop the evaluation: when total_amount,
\* subtotal or tax_amount holds a string, or a date field holds a string
\* that is not of the form YYYY-MM-DD, the report returned names the error of
\* that field and carries a computed confidence.
C3_ViolationDoesNotAbort ==
  (/\ pc # "start"
   /\ calls[1] \in {"validate_invoice_data", "validate_invoice_file"}
   /\ record.k = "dict")
  => /\ \A field \in {"total_amount", "subtotal", "tax_amount"} :
          record.f[field].k = "str"
          => /\ pc = "returned"
             /\ HasError(Quoted(field) \o " must be a number")
             /\ "confidence_level" \in DOMAIN result
     /\ \A field \in {"invoice_date", "due_date"} :
          (/\ record.f[field].k = "str"
           /\ ~MatchesIsoPattern(Chars(record.f[field].s)))
          => /\ pc = "returned"
             /\ HasError(Quoted(field)
                         \o " has invalid date format. Expected: YYYY-MM-DD")
             /\ "confidence_level" \in DOMAIN result

\* the required fields of the two document types
RequiredOf(entry) ==
  IF entry = "validate_invoice"
  THEN {"document_type", "invoice_number", "invoice_date",
        "vendor_information", "buyer_information", "item_details",
        "total_amount"}
  ELSE {"document_type", "employee_name", "expense_items", "total_amount"}

\* absent, null or one of the placeholders "", "N/A", "null"
Offending(v) ==
  v.k \in {"absent", "null"} \/ (v.k = "str" /\ v.s \in {"", "N/A", "null"})

\* C4: in validate_invoice and validate_expense every required field that is
\* absent, null or a placeholder has an entry in invalid_fields and the
\* status is "fail", however many fields offend.
C4_EveryOffendingRequiredFieldReported ==
  (/\ pc # "start"
   /\ calls[1] \in {"validate_invoice", "validate_expense"}
   /\ record.k = "dict")
  => \A field \in RequiredOf(calls[1]) :
       Offending(record.f[field])
       => /\ pc = "returned"
          /\ result.status = "fail"
          /\ field \in DOMAIN result.invalid_fields

\* the rule tables of the two document types
SchemaOf(entry) ==
  IF entry = "validate_invoice"
  THEN INVOICE_REQUIRED_FIELDS \o INVOICE_OPTIONAL_FIELDS
  ELSE EXPENSE_REQUIRED_FIELDS \o EXPENSE_OPTIONAL_FIELDS

\* the value is of the semantic type: a number is an integer or a fraction
SemanticMatch(v, type) ==
  IF type = "float" THEN v.k \in {"int", "float"} ELSE v.k = type

TypeMismatchMessages ==
  {prefix \o TypeName(type) :
     prefix \in {"Invalid type for required field. Expected ",
                 "Invalid type for optional field. Expected ",
                 "Invalid type. Expected "},
     type \in {"str", "float", "list", "dict"}}

\* C5: in validate_invoice and validate_expense a present field that is no
\* placeholder has a type-mismatch entry exactly when its value is not of the
\* declared semantic type, a number field accepting integers as well as
\* fractions; the invoice with subtotal 100, tax 10 and total 110 passes.
C5_TypeMismatchExactlyWhenMismatched ==
  (/\ pc = "returned"
   /\ calls[1] \in {"validate_invoice", "validate_expense"}
   /\ record.k = "dict")
  => /\ \A i \in 1..Len(SchemaOf(calls[1])) :
          LET field == SchemaOf(calls[1])[i][1]
              type == SchemaOf(calls[1])[i][2]
          IN ~Offending(record.f[field])
             => /\ ~SemanticMatch(record.f[field], type)
                   => field \in DOMAIN result.invalid_fields
                /\ SemanticMatch(record.f[field], type)
                   => ~(/\ field \in DOMAIN result.invalid_fields
                        /\ result.invalid_fields[field]
                             \in TypeMismatchMessages)
     /\ (record = IntegerInvoice /\ calls[1] = "validate_invoice")
        => result.status = "pass"

\* valid dates of the form YYYY-MM-DD, in their order
IsoDates ==
  <<"2023-04-15", "2023-05-15", "2023-05-20", "2023-06-15", "2024-01-02">>

IsIsoDate(v) == v.k = "str" /\ \E i \in 1..Len(IsoDates) : IsoDates[i] = v.s
DateIndex(v) == CHOOSE i \in 1..Len(IsoDates) : IsoDates[i] = v.s

\* both dates are valid, and whether the end is earlier than the start
BothDates(start, end) ==
  IsIsoDate(record.f[start]) /\ IsIsoDate(record.f[end])
EndBeforeStart(start, end) ==
  DateIndex(record.f[end]) < DateIndex(record.f[start])

ArithmeticMessages ==
  {"Incorrect total summary", "Error in logical total calculation"}

\* logical_checks holds an entry that no arithmetic check wrote
HasOrderingEntry ==
  \E i \in 1..Len(result.logical_checks) :
    result.logical_checks[i] \notin ArithmeticMessages

\* C6: when both dates of a record are valid YYYY-MM-DD dates and the end is
\* earlier than the start, validation fails with a date-ordering failure and
\* no invalid-field entry for the dates: in validate_invoice_data and in
\* validate_document for an invoice (invoice_date, due_date) and in
\* validate_document for an expense report (period_start, period_end); when
\* the start is not after the end no such failure is recorded.
C6_EndBeforeStartFails ==
  /\ (/\ Returned("validate_invoice_data")
      /\ record.k = "dict"
      /\ BothDates("invoice_date", "due_date"))
     => IF EndBeforeStart("invoice_date", "due_date")
        THEN /\ ~result.valid
             /\ HasError("Due date must be on or after invoice date")
             /\ \A field \in {"invoice_date", "due_date"} :
                  ~HasError(Quoted(field)
                            \o " has invalid date format. Expected: YYYY-MM-DD")
        ELSE ~HasError("Due date must be on or after invoice date")
  /\ (/\ Returned("validate_document")
      /\ record.k = "dict"
      /\ IsInvoiceDocument
      /\ BothDates("invoice_date", "due_date"))
     => IF EndBeforeStart("invoice_date", "due_date")
        THEN /\ result.status = "fail"
             /\ HasOrderingEntry
             /\ "invoice_date" \notin DOMAIN result.invalid_fields
             /\ "due_date" \notin DOMAIN result.invalid_fields
        ELSE ~HasOrderingEntry
  /\ (/\ Returned("validate_document")
      /\ record.k = "dict"
      /\ IsExpenseDocument
      /\ BothDates("period_start", "period_end"))
     => IF EndBeforeStart("period_start", "period_end")
        THEN /\ result.status = "fail"
             /\ HasOrderingEntry
             /\ "period_start" \notin DOMAIN result.invalid_fields
             /\ "period_end" \notin DOMAIN result.invalid_fields
        ELSE ~HasOrderingEntry

IsAmount(v) == v.k \in {"int", "float"}
Missing(v) == v.k \in {"absent", "null"}

HasArithmeticEntry ==
  \E i \in 1..Len(result.logical_checks) :
    result.logical_checks[i] \in ArithmeticMessages

\* the arithmetic check of a report, for a discount in cents
ArithmeticChecked(discount) ==
  LET subtotal == record.f["subtotal_amount"]
      vat == record.f["vat_amount"]
      total == record.f["total_amount"]
  IN /\ (IsAmount(subtotal) /\ IsAmount(vat) /\ IsAmount(total))
        => /\ HasArithmeticEntry
              <=> Abs(total.n - (subtotal.n + vat.n - discount)) > 1
           /\ HasArithmeticEntry => result.status = "fail"
     /\ (Missing(subtotal) \/ Missing(vat) \/ Missing(total))
        => ~HasArithmeticEntry

\* C7: in validate_invoice, when subtotal_amount, vat_amount and total_amount
\* are numbers, an arithmetic failure is recorded (and the status is "fail")
\* exactly when |total - (subtotal + vat - discount)| exceeds 0.01, a missing
\* or null discount counting as 0; when one of the three is absent or null
\* the check adds nothing.  validate_expense does the same without discount.
C7_ArithmeticFailsExactlyBeyondTolerance ==
  /\ (/\ Returned("validate_invoice")
      /\ record.k = "dict"
      /\ (Missing(record.f["total_discount"])
          \/ IsAmount(record.f["total_discount"])))
     => ArithmeticChecked(IF Missing(record.f["total_discount"]) THEN 0
                          ELSE record.f["total_discount"].n)
  /\ (Returned("validate_expense") /\ record.k = "dict")
     => ArithmeticChecked(0)

\* the float x is the quotient n/d to within 2^-50
Near(x, n, d) ==
  LET scale == 120
      a == ShiftLeft(NatMul(x.m, Nat2(d)), x.e + scale)
      b == ShiftLeft(Nat2(n), scale)
      diff == IF NatLess(a, b) THEN NatSub(b, a) ELSE NatSub(a, b)
  IN ~x.neg /\ ~NatLess(ShiftLeft(Nat2(d), scale - 50), diff)

NonNull(field) == record.f[field].k \notin {"absent", "null"}

RequiredPresent ==
  Cardinality({field \in {"invoice_number", "invoice_date", "total_amount"} :
                 NonNull(field)})
ImportantPresent ==
  Cardinality({field \in {"due_date", "vendor_name", "subtotal", "tax_amount",
                          "line_items"} : NonNull(field)})
FieldsWithValues == Cardinality({field \in Fields : NonNull(field)})

\* the suspicious values are those the report warns of
SuspiciousValues ==
  Cardinality({field \in {"invoice_number", "vendor_name", "client_name"} :
     /\ record.f[field].k = "str"
     /\ \E i \in 1..Len(result.warnings) :
          result.warnings[i]
            = Quoted(field) \o " appears to contain a placeholder value: \""
              \o record.f[field].s \o "\""})

\* the logical checks: the fields of each and the error of its failure
CheckFields ==
  [dates |-> {"invoice_date", "due_date"},
   amounts |-> {"subtotal", "tax_amount", "total_amount"},
   items |-> {"line_items", "subtotal"}]
CheckError ==
  [dates |-> "Due date must be on or after invoice date",
   amounts |-> "Total amount should equal subtotal plus tax amount",
   items |-> "Line items should sum to subtotal"]

ChecksEvaluated ==
  {c \in DOMAIN CheckFields : \A field \in CheckFields[c] : NonNull(field)}
ChecksPassed == {c \in ChecksEvaluated : ~HasError(CheckError[c])}

\* the confidence of the formula, in units of 1/3000, before it is clamped
Blend ==
  500 * RequiredPresent + 120 * ImportantPresent
  + (IF ChecksEvaluated = {} THEN 600
     ELSE (600 * Cardinality(ChecksPassed)) \div Cardinality(ChecksEvaluated))
  + 30 * Min(10, FieldsWithValues)
  - 300 * Min(SuspiciousValues, 5)

\* C8: the confidence of a report validate_invoice_data returns for a mapping
\* is, to the rounding of the floating-point arithmetic (2^-50), the clamp to
\* [0, 1] of 0.5 R/3 + 0.2 I/5 + 0.2 L + 0.1 min(1, F/10) - 0.1 min(S, 5):
\* R and I the required and important fields that are present and non-null,
\* F the fields with non-null values, S the suspicious values, L the share of
\* passed among the logical checks evaluated, those whose fields are all
\* present and non-null, and 1 when none is evaluated.
C8_ConfidenceIsTheClampedBlend ==
  (Returned("validate_invoice_data") /\ record.k = "dict")
  => Near(result.confidence, Max(0, Min(3000, Blend)), 3000)

\* a report whose confidence every term of the blend contributes to: of a
\* complete record with a suspicious value, one of whose three logical
\* checks passes
C8_Witness ==
  /\ Returned("validate_invoice_data")
  /\ record.k = "dict"
  /\ RequiredPresent = 3
  /\ ImportantPresent = 5
  /\ Cardinality(ChecksEvaluated) = 3
  /\ Cardinality(ChecksPassed) = 1
  /\ FieldsWithValues >= 10
  /\ SuspiciousValues = 1
  /\ Blend = 2300

FLessEq(x, y) == ~FLess(y, x)

\* C9: every report validate_invoice_data returns for a mapping has
\* 0 <= confidence <= 1 and the confidence_level of its band: "High" iff
\* confidence >= 0.9, "Medium" iff 0.7 <= confidence < 0.9, "Low" iff
\* 0.5 <= confidence < 0.7, "Very Low" iff confidence < 0.5.
C9_ConfidenceInRangeLevelIsItsBand ==
  (Returned("validate_invoice_data") /\ record.k = "dict")
  => LET c == result.confidence
         level == result.confidence_level
     IN /\ FLessEq(Zero, c) /\ FLessEq(c, FromRatio(1, 1))
        /\ level \in {"High", "Medium", "Low", "Very Low"}
        /\ level = "High" <=> FLessEq(FromRatio(9, 10), c)
        /\ level = "Medium"
           <=> (FLessEq(FromRatio(7, 10), c) /\ FLess(c, FromRatio(9, 10)))
        /\ level = "Low"
           <=> (FLessEq(FromRatio(5, 10), c) /\ FLess(c, FromRatio(7, 10)))
        /\ level = "Very Low" <=> FLess(c, FromRatio(5, 10))

\* a report whose blend is 0.9 to the letter and whose confidence, the sum
\* of the rounded terms, lies just below 0.9: its level is "Medium"
C9_Witness ==
  /\ Returned("validate_invoice_data")
  /\ record.k = "dict"
  /\ Blend = 2700
  /\ FLess(result.confidence, FromRatio(9, 10))
  /\ result.confidence_level = "Medium"

AllRequiredMissing ==
  /\ record.k = "dict"
  /\ \A field \in {"invoice_number", "invoice_date", "total_amount"} :
       ~NonNull(field)

PlaceholderSpellings(field) ==
  {"N/A", "n/a", "Unknown"}
  \union (IF field = "invoice_number" THEN {"000"} ELSE {"None"})

HoldsPlaceholder(field) ==
  /\ record.k = "dict"
  /\ record.f[field].k = "str"
  /\ record.f[field].s \in PlaceholderSpellings(field)

\* the same record holding a non-placeholder string in the field
WithName(field) == [record EXCEPT !.f[field] = PyStr("Acme Corp")]

\* the confidence of a mapping record before it is clamped
Unclamped(r) == WeightedSum(Metrics(r.f, Verdicts(r.f)), weights)

PlaceholderText(field) ==
  Quoted(field) \o " appears to contain a placeholder value: \""
  \o record.f[field].s \o "\""

\* the warnings of the report that name the field
WarningsNaming(field) ==
  {i \in 1..Len(result.warnings) :
     result.warnings[i] \in {PlaceholderText(field),
                             "Missing important field: " \o field}}

PlaceholderEffect(field, other) ==
  LET NotTheWarning(w) == w # PlaceholderText(field)
  IN /\ result.errors = other.errors
     /\ result.valid = other.valid
     /\ Cardinality(WarningsNaming(field)) = 1
     /\ \E i \in WarningsNaming(field) :
          result.warnings[i] = PlaceholderText(field)
     /\ SelectSeq(result.warnings, NotTheWarning) = other.warnings
     /\ Near(FSub(Unclamped(WithName(field)), Unclamped(record)), 1, 10)

\* C11: in a report of validate_invoice_data, a placeholder string (in any
\* letter case) in invoice_number, vendor_name or client_name leaves the
\* errors and valid as they are for the same record with a non-placeholder
\* string in that field, adds exactly one warning, which names the field,
\* and lowers the confidence before clamping by 0.1.
C11_PlaceholderWarnsAndLowersConfidence ==
  \A field \in {"invoice_number", "vendor_name", "client_name"} :
    (Returned("validate_invoice_data") /\ HoldsPlaceholder(field))
    => PlaceholderEffect(field, validate_invoice_data(WithName(field)).report)

\* a report on a record with lower-case placeholders for both names and an
\* unclamped confidence
C11_Witness ==
  /\ Returned("validate_invoice_data")
  /\ HoldsPlaceholder("vendor_name")
  /\ HoldsPlaceholder("client_name")
  /\ record.f["vendor_name"].s = "n/a"
  /\ Cardinality(WarningsNaming("vendor_name")) = 1
  /\ Len(result.warnings) = 2
  /\ Near(result.confidence, 8, 10)

\* C12: on a top-level input that is not a mapping no entry point raises:
\* validate_invoice_data returns valid = false, a non-empty errors list,
\* confidence 0 and confidence_level "Very Low", and validate_document
\* returns a report with status "fail".
C12_NotAMappingShortCircuits ==
  /\ (Called("validate_invoice_data") /\ record.k # "dict")
     => /\ pc = "returned"
        /\ ~result.valid
        /\ result.errors # <<>>
        /\ result.confidence.m = <<>>
        /\ "confidence_level" \in DOMAIN result
        /\ result.confidence_level = "Very Low"
  /\ (Called("validate_document") /\ record.k # "dict")
     => /\ pc = "returned"
        /\ result.status = "fail"

\* the value of a line item in units of 1/10000: its amount (or total), or
\* quantity times unit_price when it has neither
ItemValue(item) ==
  IF IsAmount(item.f["amount"]) THEN 100 * item.f["amount"].n
  ELSE IF IsAmount(item.f["total"]) THEN 100 * item.f["total"].n
  ELSE IF IsAmount(item.f["quantity"]) /\ IsAmount(item.f["unit_price"])
    THEN item.f["quantity"].n * item.f["unit_price"].n
  ELSE 0

RECURSIVE ItemsValue(_)
ItemsValue(items) ==
  IF items = <<>> THEN 0
  ELSE ItemValue(Head(items)) + ItemsValue(Tail(items))

\* line_items is a list of mappings and subtotal a number
LineItemsChecked ==
  /\ record.k = "dict"
  /\ record.f["line_items"].k = "list"
  /\ \A i \in 1..Len(record.f["line_items"].items) :
       record.f["line_items"].items[i].k = "dict"
  /\ IsAmount(record.f["subtotal"])

WithinTolerance ==
  Abs(ItemsValue(record.f["line_items"].items)
      - 100 * record.f["subtotal"].n) <= 100

\* C13: in a report of validate_invoice_data on a record with line_items and
\* subtotal, the line_items_sum check passes (no "Line items should sum to
\* subtotal" error) exactly when the sum of the items' amounts, or of
\* quantity times unit_price for an item without amount or total, differs
\* from subtotal by no more than 0.01; an empty line_items passes; items
\* carrying their value in `amount` that sum to subtotal pass.
C13_LineItemsSumWithinTolerance ==
  (Returned("validate_invoice_data") /\ LineItemsChecked)
  => /\ ~HasError("Line items should sum to subtotal")
        <=> (record.f["line_items"].items = <<>> \/ WithinTolerance)
     /\ record.f["line_items"].items = <<>>
        => ~HasError("Line items should sum to subtotal")

\* the documents validate_document was called on
DocumentsValidated ==
  Cardinality({i \in 1..Len(calls) : calls[i] = "validate_document"})

\* C14: print_validation_result validates every document of the list: once
\* the loop over a list has ended, by returning or by an exception,
\* validate_document has been called on each document of the list, also on
\* those after a document that is no mapping or whose document_type is null
\* or no string.
C14_EveryDocumentValidated ==
  (pc \in {"done", "raised", "caught"} /\ loaded.k = "list")
  => DocumentsValidated = Len(loaded.docs)

\* C15: the verdict of a returned report agrees with its contents: the
\* status of a report of validate_document, validate_invoice or
\* validate_expense is "pass" exactly when invalid_fields and logical_checks
\* are both empty, and valid of a report of validate_invoice_data on a
\* mapping is true exactly when errors is empty, whatever the warnings.
C15_VerdictAgreesWithContents ==
  /\ (\/ Returned("validate_document")
      \/ Returned("validate_invoice")
      \/ Returned("validate_expense"))
     => /\ result.status \in {"pass", "fail"}
        /\ result.status = "pass"
           <=> (DOMAIN result.invalid_fields = {} /\ result.logical_checks = <<>>)
  /\ (Returned("validate_invoice_data") /\ record.k = "dict")
     => (result.valid <=> result.errors = <<>>)

\* a report of validate_document that fails on a logical check alone
C15_Witness ==
  /\ Returned("validate_document")
  /\ result.status = "fail"
  /\ DOMAIN result.invalid_fields = {}
  /\ result.logical_checks # <<>>

=============================================================================
